---------------------------- MODULE Spec2Model ----------------------------
(***************************************************************************)
(* Model of the medical report summarizer (src/summarizer.py): the field   *)
(* extractors, the record assembler, the summary generator, the SQLite     *)
(* backed persistence store and the demo orchestrator.                     *)
(*                                                                         *)
(* A Python str is modelled as a sequence of one-character strings, so     *)
(* that substring tests, regular expressions, JSON encoding and SQL LIKE   *)
(* are computed character by character as the code computes them.          *)
(***************************************************************************)
EXTENDS Integers, Sequences, FiniteSets, TLC

VARIABLES
    \* ---- extractor harness (SpecExtract)
    text,           \* the input text handed to an extractor
    patient_id,     \* <<>> until extract_patient_info ran, then <<its patient_id>>
    found_meds,     \* <<>> until extract_medications ran, then <<its result>>
    \* ---- MedicalSummarizer instance (Spec, SpecDemo)
    conn,           \* "none" | "open" | "closed": self.conn
    committed,      \* rows of table reports that are durable
    pending,        \* rows written inside the open, uncommitted transaction
    last,           \* the last API call: its name, argument, outcome and result
    returned,       \* identities returned so far by save_report
    \* ---- demo() and process_report (SpecDemo)
    pc,             \* position in demo / process_report
    reports,        \* texts still to be processed by the for loop
    locals,         \* the local variables of process_report set so far
    report,         \* <<>>, or <<the MedicalReport process_report constructed>>
    calls,          \* how often each step of the current process_report ran
    exc,            \* the exception propagating, "" when none
    closes          \* how many times close() was called

vars == <<text, patient_id, found_meds, conn, committed, pending, last,
          returned, pc, reports, locals, report, calls, exc,
          closes>>

-----------------------------------------------------------------------------
(* Characters and strings *)

\* the lower-case letter of each upper-case ASCII letter
LowerOf ==
    [A |-> "a", B |-> "b", C |-> "c", D |-> "d", E |-> "e", F |-> "f",
     G |-> "g", H |-> "h", I |-> "i", J |-> "j", K |-> "k", L |-> "l",
     M |-> "m", N |-> "n", O |-> "o", P |-> "p", Q |-> "q", R |-> "r",
     S |-> "s", T |-> "t", U |-> "u", V |-> "v", W |-> "w", X |-> "x",
     Y |-> "y", Z |-> "z"]

UpperLetters == DOMAIN LowerOf
LowerLetters == {LowerOf[c] : c \in UpperLetters}

IsUpper(c) == c \in UpperLetters
IsLower(c) == c \in LowerLetters
\* [A-Za-z]
IsAlpha(c) == IsUpper(c) \/ IsLower(c)
\* \d
IsDigit(c) == c \in {"0","1","2","3","4","5","6","7","8","9"}
\* \s
IsSpace(c) == c \in {" ", "\n", "\t", "\r"}
\* [:\s]
IsSep(c) == c = ":" \/ IsSpace(c)
\* [A-Za-z0-9\-]
IsIdChar(c) == IsAlpha(c) \/ IsDigit(c) \/ c = "-"

\* str.lower() on one character, and what re.IGNORECASE compares
LowerChar(c) == IF IsUpper(c) THEN LowerOf[c] ELSE c

\* str.lower()
LowerStr(s) == [i \in 1..Len(s) |-> LowerChar(s[i])]

\* the literal lit occurs in s at position p, letter case respected
MatchLit(s, p, lit) ==
    /\ p >= 1
    /\ p + Len(lit) - 1 <= Len(s)
    /\ \A k \in 1..Len(lit) : s[p + k - 1] = lit[k]

\* the literal lit occurs in s at position p under re.IGNORECASE
MatchLitI(s, p, lit) ==
    /\ p >= 1
    /\ p + Len(lit) - 1 <= Len(s)
    /\ \A k \in 1..Len(lit) : LowerChar(s[p + k - 1]) = LowerChar(lit[k])

\* Python's `sub in s`
Contains(s, sub) == \E p \in 1..(Len(s) - Len(sub) + 1) : MatchLit(s, p, sub)

\* the position after the longest run of characters satisfying P that starts
\* at p: a greedy  [class]*  (none of the patterns below can succeed after
\* giving back a character of such a run, so greedy matching decides them)
RunEnd(s, p, P(_)) ==
    CHOOSE e \in p..(Len(s) + 1) :
        /\ \A k \in p..(e - 1) : P(s[k])
        /\ e = Len(s) + 1 \/ ~P(s[e])

\* the smallest element of a non-empty set of positions
Min(S) == CHOOSE m \in S : \A n \in S : m <= n

\* the concatenation of a sequence of strings
RECURSIVE Concat(_)
Concat(ss) == IF ss = <<>> THEN <<>> ELSE Head(ss) \o Concat(Tail(ss))

\* sep.join(ss)
RECURSIVE Join(_, _)
Join(sep, ss) ==
    IF ss = <<>> THEN <<>>
    ELSE IF Len(ss) = 1 THEN ss[1]
    ELSE ss[1] \o sep \o Join(sep, Tail(ss))

\* x in xs, for a list
InList(x, xs) == \E i \in 1..Len(xs) : xs[i] = x

\* xs[:n]
Take(xs, n) == SubSeq(xs, 1, IF Len(xs) < n THEN Len(xs) ELSE n)

-----------------------------------------------------------------------------
(* Field extractors *)

symptoms ==
    << <<"f","e","v","e","r">>,
       <<"h","e","a","d","a","c","h","e">>,
       <<"n","a","u","s","e","a">>,
       <<"v","o","m","i","t","i","n","g">>,
       <<"d","i","a","r","r","h","e","a">>,
       <<"f","a","t","i","g","u","e">>,
       <<"c","h","e","s","t"," ","p","a","i","n">>,
       <<"s","h","o","r","t","n","e","s","s"," ","o","f"," ","b","r","e","a","t","h">>,
       <<"d","i","z","z","i","n","e","s","s">>,
       <<"c","o","u","g","h">>,
       <<"r","a","s","h">>,
       <<"a","b","d","o","m","i","n","a","l"," ","p","a","i","n">>,
       <<"b","a","c","k"," ","p","a","i","n">>,
       <<"j","o","i","n","t"," ","p","a","i","n">>,
       <<"m","u","s","c","l","e"," ","p","a","i","n">> >>

common_meds ==
    << <<"a","c","e","t","a","m","i","n","o","p","h","e","n">>,
       <<"i","b","u","p","r","o","f","e","n">>,
       <<"a","s","p","i","r","i","n">>,
       <<"l","i","s","i","n","o","p","r","i","l">>,
       <<"m","e","t","f","o","r","m","i","n">>,
       <<"a","t","o","r","v","a","s","t","a","t","i","n">>,
       <<"a","m","l","o","d","i","p","i","n","e">>,
       <<"o","m","e","p","r","a","z","o","l","e">>,
       <<"l","o","s","a","r","t","a","n">>,
       <<"g","a","b","a","p","e","n","t","i","n">> >>

UNKNOWN == <<"U","N","K","N","O","W","N">>

\* [:\s]+([A-Za-z0-9\-]+) from position e: the captured token, <<>> when the
\* pattern does not match there
IdTokenAfter(s, e) ==
    LET t == RunEnd(s, e, IsSep)
        u == RunEnd(s, t, IsIdChar)
    IN  IF t > e /\ u > t THEN SubSeq(s, t, u - 1) ELSE <<>>

\* (?:patient\s+id|mrn|id) at position p: the position after the introducer,
\* 0 when none of the alternatives matches there
IntroducerEnd(s, p) ==
    LET q == RunEnd(s, p + 7, IsSpace)
    IN  IF MatchLitI(s, p, <<"p","a","t","i","e","n","t">>) /\ q > p + 7
           /\ MatchLitI(s, q, <<"i","d">>)
        THEN q + 2
        ELSE IF MatchLitI(s, p, <<"m","r","n">>) THEN p + 3
        ELSE IF MatchLitI(s, p, <<"i","d">>) THEN p + 2
        ELSE 0

\* the whole patient-id pattern tried at position p: group(1), <<>> for no match
PatientMatchAt(s, p) ==
    LET e == IntroducerEnd(s, p)
    IN  IF e = 0 THEN <<>> ELSE IdTokenAfter(s, e)

\* extract_patient_info, the patient_id half: re.search takes the leftmost match
ExtractPatientId(s) ==
    LET hits == {p \in 1..Len(s) : PatientMatchAt(s, p) # <<>>}
    IN  IF hits = {} THEN UNKNOWN ELSE PatientMatchAt(s, Min(hits))

\* the vocabulary entries that occur in the lower-cased text, in vocabulary order
VocabScan(vocab, s) ==
    LET text_lower == LowerStr(s)
    IN  SelectSeq(vocab, LAMBDA w : Contains(text_lower, w))

\* extract_symptoms
ExtractSymptoms(s) == VocabScan(symptoms, s)

\* ([A-Za-z]+)\s+\d+\s*mg tried at position p: <<group(1), end of the match>>,
\* <<>> for no match
MedMatchAt(s, p) ==
    LET w == RunEnd(s, p, IsAlpha)
        a == RunEnd(s, w, IsSpace)
        d == RunEnd(s, a, IsDigit)
        b == RunEnd(s, d, IsSpace)
    IN  IF w > p /\ a > w /\ d > a /\ MatchLitI(s, b, <<"m","g">>)
        THEN <<SubSeq(s, p, w - 1), b + 2>>
        ELSE <<>>

\* re.findall of the dosage pattern from position pos on: the captured names
\* of the non-overlapping matches, left to right
RECURSIVE MedFindAll(_, _)
MedFindAll(s, pos) ==
    LET hits == {p \in pos..Len(s) : MedMatchAt(s, p) # <<>>}
    IN  IF hits = {} THEN <<>>
        ELSE LET m == MedMatchAt(s, Min(hits))
             IN  <<m[1]>> \o MedFindAll(s, m[2])

\* the second loop with the membership test on the name as written, not on
\* the lower-cased name
RECURSIVE AppendNewMedsAsWritten(_, _)
AppendNewMedsAsWritten(found, med_patterns) ==
    IF med_patterns = <<>> THEN found
    ELSE LET med == Head(med_patterns)
         IN  AppendNewMedsAsWritten(IF InList(med, found) THEN found
                                    ELSE Append(found, LowerStr(med)),
                                    Tail(med_patterns))

\* the second loop of extract_medications: append each lower-cased name that
\* is not yet in found_meds
RECURSIVE AppendNewMeds(_, _)
AppendNewMeds(found, med_patterns) ==
    IF med_patterns = <<>> THEN found
    ELSE LET med == LowerStr(Head(med_patterns))
         IN  AppendNewMeds(IF InList(med, found) THEN found
                           ELSE Append(found, med),
                           Tail(med_patterns))

\* extract_medications
ExtractMedications(s) ==
    AppendNewMeds(VocabScan(common_meds, s), MedFindAll(s, 1))


\* the value of a decimal digit, and of a string of digits
DigitVal(c) == CHOOSE n \in 0..9 : <<"0","1","2","3","4","5","6","7","8","9">>[n + 1] = c

RECURSIVE IntVal(_)
IntVal(ds) ==
    IF ds = <<>> THEN 0
    ELSE 10 * IntVal(SubSeq(ds, 1, Len(ds) - 1)) + DigitVal(ds[Len(ds)])

\* calendar.monthrange: the number of days of month m of year y
DaysInMonth(y, m) ==
    IF m = 2
    THEN IF (y % 4 = 0 /\ y % 100 # 0) \/ y % 400 = 0 THEN 29 ELSE 28
    ELSE IF m \in {4, 6, 9, 11} THEN 30 ELSE 31

\* (?:date)[:\s]+(\d{1,2}/\d{1,2}/\d{4}) tried at position p: the three digit
\* groups <<month, day, year>> of group(1), <<>> for no match
DateMatchAt(s, p) ==
    LET t  == RunEnd(s, p + 4, IsSep)
        d1 == RunEnd(s, t, IsDigit)
        d2 == RunEnd(s, d1 + 1, IsDigit)
        d3 == RunEnd(s, d2 + 1, IsDigit)
    IN  IF /\ MatchLitI(s, p, <<"d","a","t","e">>)
           /\ t > p + 4
           /\ d1 - t \in {1, 2}
           /\ MatchLit(s, d1, <<"/">>)
           /\ d2 - (d1 + 1) \in {1, 2}
           /\ MatchLit(s, d2, <<"/">>)
           /\ d3 - (d2 + 1) >= 4
        THEN <<SubSeq(s, t, d1 - 1), SubSeq(s, d1 + 1, d2 - 1),
               SubSeq(s, d2 + 1, d2 + 4)>>
        ELSE <<>>

\* datetime.strptime(group, '%m/%d/%Y') succeeds: %m is 1..12, %d is 1..31,
\* the year is at least MINYEAR and the day exists in that month
StrptimeOk(g) ==
    LET m == IntVal(g[1])
        d == IntVal(g[2])
        y == IntVal(g[3])
    IN  /\ m \in 1..12
        /\ d \in 1..31
        /\ y >= 1
        /\ d <= DaysInMonth(y, m)

\* two digits, zero padded: strftime's %m and %d
Pad2(ds) == IF Len(ds) = 1 THEN <<"0">> \o ds ELSE ds

\* strftime's %Y as the C library prints it: the year without leading zeros
RECURSIVE YearStr(_)
YearStr(ds) == IF Len(ds) > 1 /\ ds[1] = "0" THEN YearStr(Tail(ds)) ELSE ds

\* date_obj.strftime('%Y-%m-%d')
Strftime(g) == YearStr(g[3]) \o <<"-">> \o Pad2(g[1]) \o <<"-">> \o Pad2(g[2])

\* extract_patient_info, the report_date half; today is
\* datetime.now().strftime('%Y-%m-%d')
ExtractReportDate(s, today) ==
    LET hits == {p \in 1..Len(s) : DateMatchAt(s, p) # <<>>}
    IN  IF hits = {} THEN today
        ELSE LET g == DateMatchAt(s, Min(hits))
             IN  IF StrptimeOk(g) THEN Strftime(g) ELSE today

\* (\d+(?:\.\d+)?) from position t: the position after the number, 0 if none
NumberEnd(s, t) ==
    LET d == RunEnd(s, t, IsDigit)
        f == RunEnd(s, d + 1, IsDigit)
    IN  IF d = t THEN 0
        ELSE IF MatchLit(s, d, <<".">>) /\ f > d + 1 THEN f ELSE d

\* (\d+/\d+) from position t: the position after it, 0 if none
RatioEnd(s, t) ==
    LET d == RunEnd(s, t, IsDigit)
        f == RunEnd(s, d + 1, IsDigit)
    IN  IF d > t /\ MatchLit(s, d, <<"/">>) /\ f > d + 1 THEN f ELSE 0

\* the table `patterns` of extract_lab_values, in its order: the key, the
\* alternatives of the label in the order the regex tries them, and whether
\* the value is \d+/\d+ (TRUE) or a number (FALSE)
lab_patterns ==
    << [key |-> <<"g","l","u","c","o","s","e">>,
        labels |-> << <<"g","l","u","c","o","s","e">> >>,
        ratio |-> FALSE],
       [key |-> <<"h","e","m","o","g","l","o","b","i","n">>,
        labels |-> << <<"h","e","m","o","g","l","o","b","i","n">> >>,
        ratio |-> FALSE],
       [key |-> <<"c","h","o","l","e","s","t","e","r","o","l">>,
        labels |-> << <<"c","h","o","l","e","s","t","e","r","o","l">> >>,
        ratio |-> FALSE],
       [key |-> <<"b","l","o","o","d","_","p","r","e","s","s","u","r","e">>,
        labels |-> << <<"b","p">>,
                      <<"b","l","o","o","d"," ","p","r","e","s","s","u","r","e">> >>,
        ratio |-> TRUE],
       [key |-> <<"t","e","m","p","e","r","a","t","u","r","e">>,
        labels |-> << <<"t","e","m","p","e","r","a","t","u","r","e">>,
                      <<"t","e","m","p">> >>,
        ratio |-> FALSE] >>

\* label[:\s]+(value) with one label, tried at position p: group(1), <<>> if none
LabValueAfter(s, p, label, ratio) ==
    LET e == p + Len(label)
        t == RunEnd(s, e, IsSep)
        v == IF ratio THEN RatioEnd(s, t) ELSE NumberEnd(s, t)
    IN  IF MatchLitI(s, p, label) /\ t > e /\ v > 0 THEN SubSeq(s, t, v - 1)
        ELSE <<>>

\* one lab pattern tried at position p: the first alternative that matches
LabMatchAt(s, p, pat) ==
    LET ok == {i \in 1..Len(pat.labels) :
                  LabValueAfter(s, p, pat.labels[i], pat.ratio) # <<>>}
    IN  IF ok = {} THEN <<>>
        ELSE LabValueAfter(s, p, pat.labels[Min(ok)], pat.ratio)

\* re.search(pattern, text, re.IGNORECASE) for one lab pattern
LabSearch(s, pat) ==
    LET hits == {p \in 1..Len(s) : LabMatchAt(s, p, pat) # <<>>}
    IN  IF hits = {} THEN <<>> ELSE LabMatchAt(s, Min(hits), pat)

\* extract_lab_values: the dict as its items in insertion order
RECURSIVE LabsFrom(_, _)
LabsFrom(s, i) ==
    IF i > Len(lab_patterns) THEN <<>>
    ELSE LET v == LabSearch(s, lab_patterns[i])
         IN  (IF v = <<>> THEN <<>> ELSE << <<lab_patterns[i].key, v>> >>)
             \o LabsFrom(s, i + 1)

ExtractLabValues(s) == LabsFrom(s, 1)

NoDiagnosis == <<"N","o"," ","c","l","e","a","r"," ","d","i","a","g","n","o","s","i","s"," ","f","o","u","n","d">>

\* the slice bound of extract_diagnosis
DiagnosisMax == 200

diagnosis_labels ==
    << <<"d","i","a","g","n","o","s","i","s">>,
       <<"i","m","p","r","e","s","s","i","o","n">>,
       <<"a","s","s","e","s","s","m","e","n","t">> >>

\* (?:\n\n|\n[A-Z]|$) matches at position q; under re.IGNORECASE [A-Z] takes
\* a letter of either case, and without re.MULTILINE $ is the end of the text
\* or the place before a final newline
DiagTerminator(s, q) ==
    \/ MatchLit(s, q, <<"\n","\n">>)
    \/ MatchLit(s, q, <<"\n">>) /\ q + 1 <= Len(s) /\ IsAlpha(s[q + 1])
    \/ q = Len(s) + 1
    \/ q = Len(s) /\ s[q] = "\n"

\* label[:\s]+(.*?)(?:\n\n|\n[A-Z]|$) tried at position p: <<group(1)>>, <<>>
\* for no match (the lazy group stops at the first terminator)
DiagMatchAt(s, p, label) ==
    LET e == p + Len(label)
        t == RunEnd(s, e, IsSep)
        q == Min({x \in t..(Len(s) + 1) : DiagTerminator(s, x)})
    IN  IF MatchLitI(s, p, label) /\ t > e THEN <<SubSeq(s, t, q - 1)>>
        ELSE <<>>

\* str.strip()
Strip(s) ==
    LET keep == {i \in 1..Len(s) : ~IsSpace(s[i])}
    IN  IF keep = {} THEN <<>>
        ELSE SubSeq(s, Min(keep), CHOOSE m \in keep : \A n \in keep : n <= m)

\* re.sub(r'\s+', ' ', s)
RECURSIVE CollapseSpace(_)
CollapseSpace(s) ==
    IF s = <<>> THEN <<>>
    ELSE IF IsSpace(s[1])
         THEN <<" ">> \o CollapseSpace(SubSeq(s, RunEnd(s, 1, IsSpace), Len(s)))
         ELSE <<s[1]>> \o CollapseSpace(Tail(s))

\* the loop of extract_diagnosis from pattern i on
RECURSIVE DiagnosisFrom(_, _)
DiagnosisFrom(s, i) ==
    IF i > Len(diagnosis_labels) THEN NoDiagnosis
    ELSE LET hits == {p \in 1..Len(s) :
                         DiagMatchAt(s, p, diagnosis_labels[i]) # <<>>}
         IN  IF hits = {} THEN DiagnosisFrom(s, i + 1)
             ELSE LET g == DiagMatchAt(s, Min(hits), diagnosis_labels[i])[1]
                  IN  Take(CollapseSpace(Strip(g)), DiagnosisMax)

\* extract_diagnosis
ExtractDiagnosis(s) == DiagnosisFrom(s, 1)

-----------------------------------------------------------------------------
(* Summary generator and record assembler *)

\* f"{test}={value}" for each of the given items
LabItems(items) == [i \in 1..Len(items) |-> items[i][1] \o <<"=">> \o items[i][2]]

\* generate_summary
GenerateSummary(r) ==
    LET parts ==
            << <<"P","a","t","i","e","n","t",":"," ">> \o r.patient_id,
               <<"D","a","t","e",":"," ">> \o r.report_date,
               <<"T","y","p","e",":"," ">> \o r.report_type >>
            \o (IF r.diagnosis # NoDiagnosis
                THEN << <<"D","i","a","g","n","o","s","i","s",":"," ">> \o r.diagnosis >>
                ELSE <<>>)
            \o (IF r.symptoms # <<>>
                THEN << <<"S","y","m","p","t","o","m","s",":"," ">>
                        \o Join(<<","," ">>, Take(r.symptoms, 3)) >>
                ELSE <<>>)
            \o (IF r.medications # <<>>
                THEN << <<"M","e","d","i","c","a","t","i","o","n","s",":"," ">>
                        \o Join(<<","," ">>, Take(r.medications, 3)) >>
                ELSE <<>>)
            \o (IF r.lab_values # <<>>
                THEN << <<"L","a","b","s",":"," ">>
                        \o Join(<<","," ">>, LabItems(Take(r.lab_values, 2))) >>
                ELSE <<>>)
    IN  Join(<<" ","|"," ">>, parts)

\* the MedicalReport(...) constructor call of process_report
NewReport(s, report_type, today) ==
    [patient_id  |-> ExtractPatientId(s),
     report_date |-> ExtractReportDate(s, today),
     report_type |-> report_type,
     diagnosis   |-> ExtractDiagnosis(s),
     symptoms    |-> ExtractSymptoms(s),
     medications |-> ExtractMedications(s),
     lab_values  |-> ExtractLabValues(s),
     summary     |-> <<>>,
     raw_text    |-> s]

\* process_report
ProcessReport(s, report_type, today) ==
    LET r == NewReport(s, report_type, today)
    IN  [r EXCEPT !.summary = GenerateSummary(r)]

-----------------------------------------------------------------------------
(* json.dumps / json.loads on the list and dict columns *)

\* json.dumps of one str: quotes around it, with the two-character escapes
JsonEscape(c) ==
    IF c = "\"" THEN <<"\\", "\"">>
    ELSE IF c = "\\" THEN <<"\\", "\\">>
    ELSE IF c = "\n" THEN <<"\\", "n">>
    ELSE IF c = "\r" THEN <<"\\", "r">>
    ELSE IF c = "\t" THEN <<"\\", "t">>
    ELSE <<c>>

JsonDumpsStr(s) ==
    <<"\"">> \o Concat([i \in 1..Len(s) |-> JsonEscape(s[i])]) \o <<"\"">>

\* json.dumps of a List[str]
JsonDumpsList(xs) ==
    <<"[">> \o Join(<<",", " ">>, [i \in 1..Len(xs) |-> JsonDumpsStr(xs[i])])
    \o <<"]">>

\* json.dumps of a Dict[str, str], given as its items in insertion order
JsonDumpsDict(items) ==
    <<"{">>
    \o Join(<<",", " ">>,
            [i \in 1..Len(items) |->
                JsonDumpsStr(items[i][1]) \o <<":", " ">> \o JsonDumpsStr(items[i][2])])
    \o <<"}">>

\* the decoder skips whitespace between tokens
JsonSkip(s, p) == RunEnd(s, p, IsSpace)

JsonUnescape(c) ==
    IF c = "n" THEN "\n"
    ELSE IF c = "r" THEN "\r"
    ELSE IF c = "t" THEN "\t"
    ELSE c

\* scanstring: the str whose opening quote is at position p - 1, read from p on:
\* [ok, val, next], next the position after the closing quote
RECURSIVE JsonScanString(_, _, _)
JsonScanString(s, p, acc) ==
    IF p > Len(s) THEN [ok |-> FALSE, val |-> <<>>, next |-> p]
    ELSE IF s[p] = "\"" THEN [ok |-> TRUE, val |-> acc, next |-> p + 1]
    ELSE IF s[p] = "\\"
         THEN IF p + 1 <= Len(s) /\ s[p + 1] \in {"\"", "\\", "/", "n", "r", "t"}
              THEN JsonScanString(s, p + 2, Append(acc, JsonUnescape(s[p + 1])))
              ELSE [ok |-> FALSE, val |-> <<>>, next |-> p]
    ELSE JsonScanString(s, p + 1, Append(acc, s[p]))

\* a str value at position p (after whitespace)
JsonString(s, p) ==
    LET q == JsonSkip(s, p)
    IN  IF MatchLit(s, q, <<"\"">>) THEN JsonScanString(s, q + 1, <<>>)
        ELSE [ok |-> FALSE, val |-> <<>>, next |-> q]

\* the elements of an array after its "[" or after a ",": [ok, val, next]
RECURSIVE JsonArrayItems(_, _, _)
JsonArrayItems(s, p, acc) ==
    LET v == JsonString(s, p)
        q == JsonSkip(s, v.next)
    IN  IF ~v.ok THEN [ok |-> FALSE, val |-> <<>>, next |-> p]
        ELSE IF MatchLit(s, q, <<",">>)
             THEN JsonArrayItems(s, q + 1, Append(acc, v.val))
        ELSE IF MatchLit(s, q, <<"]">>)
             THEN [ok |-> TRUE, val |-> Append(acc, v.val), next |-> q + 1]
        ELSE [ok |-> FALSE, val |-> <<>>, next |-> q]

\* dict[key] = value on the items of a dict: a key already present keeps its
\* place and takes the new value
DictSet(items, k, v) ==
    IF \E i \in 1..Len(items) : items[i][1] = k
    THEN [i \in 1..Len(items) |-> IF items[i][1] = k THEN <<k, v>> ELSE items[i]]
    ELSE Append(items, <<k, v>>)

\* the members of an object after its "{" or after a ","
RECURSIVE JsonObjectItems(_, _, _)
JsonObjectItems(s, p, acc) ==
    LET k == JsonString(s, p)
        c == JsonSkip(s, k.next)
        v == JsonString(s, c + 1)
        q == JsonSkip(s, v.next)
    IN  IF ~k.ok \/ ~MatchLit(s, c, <<":">>) \/ ~v.ok
        THEN [ok |-> FALSE, val |-> <<>>, next |-> p]
        ELSE IF MatchLit(s, q, <<",">>)
             THEN JsonObjectItems(s, q + 1, DictSet(acc, k.val, v.val))
        ELSE IF MatchLit(s, q, <<"}">>)
             THEN [ok |-> TRUE, val |-> DictSet(acc, k.val, v.val), next |-> q + 1]
        ELSE [ok |-> FALSE, val |-> <<>>, next |-> q]

\* json.loads of a column that holds an array of str or an object of str:
\* [ok, val]; ok is FALSE where json.loads raises JSONDecodeError
JsonLoads(s) ==
    LET p == JsonSkip(s, 1)
        r == IF MatchLit(s, p, <<"[">>)
             THEN IF MatchLit(s, JsonSkip(s, p + 1), <<"]">>)
                  THEN [ok |-> TRUE, val |-> <<>>, next |-> JsonSkip(s, p + 1) + 1]
                  ELSE JsonArrayItems(s, p + 1, <<>>)
             ELSE IF MatchLit(s, p, <<"{">>)
             THEN IF MatchLit(s, JsonSkip(s, p + 1), <<"}">>)
                  THEN [ok |-> TRUE, val |-> <<>>, next |-> JsonSkip(s, p + 1) + 1]
                  ELSE JsonObjectItems(s, p + 1, <<>>)
             ELSE [ok |-> FALSE, val |-> <<>>, next |-> p]
    IN  [ok |-> r.ok /\ JsonSkip(s, r.next) = Len(s) + 1, val |-> r.val]

-----------------------------------------------------------------------------
(* SQLite: TEXT comparison, LIKE, the reports table *)

\* the printable ASCII characters in code order: 32 to 95, and 97 to 126
AsciiLow ==
    <<" ","!","\"","#","$","%","&","'","(",")","*","+",",","-",".","/","0",
      "1","2","3","4","5","6","7","8","9",":",";","<","=",">","?","@","A",
      "B","C","D","E","F","G","H","I","J","K","L","M","N","O","P","Q","R",
      "S","T","U","V","W","X","Y","Z","[","\\","]","^","_">>

AsciiHigh ==
    <<"a","b","c","d","e","f","g","h","i","j","k","l","m","n","o","p","q",
      "r","s","t","u","v","w","x","y","z","{","|","}","~">>

\* the code point of a character
CharCode(c) ==
    IF c = "\t" THEN 9
    ELSE IF c = "\n" THEN 10
    ELSE IF c = "\r" THEN 13
    ELSE IF \E i \in 1..Len(AsciiLow) : AsciiLow[i] = c
         THEN 31 + (CHOOSE i \in 1..Len(AsciiLow) : AsciiLow[i] = c)
    ELSE 96 + (CHOOSE i \in 1..Len(AsciiHigh) : AsciiHigh[i] = c)

\* a < b for TEXT values under the BINARY collation (memcmp)
RECURSIVE TextLess(_, _)
TextLess(a, b) ==
    IF b = <<>> THEN FALSE
    ELSE IF a = <<>> THEN TRUE
    ELSE IF a[1] = b[1] THEN TextLess(Tail(a), Tail(b))
    ELSE CharCode(a[1]) < CharCode(b[1])

\* the LIKE operator from pattern position i and text position j: % takes any
\* run of characters, _ any one character, and ASCII letters compare without
\* regard to case
RECURSIVE LikeFrom(_, _, _, _)
LikeFrom(pat, i, s, j) ==
    IF i > Len(pat) THEN j > Len(s)
    ELSE IF pat[i] = "%"
         THEN \E k \in j..(Len(s) + 1) : LikeFrom(pat, i + 1, s, k)
    ELSE IF j > Len(s) THEN FALSE
    ELSE IF pat[i] = "_" THEN LikeFrom(pat, i + 1, s, j + 1)
    ELSE LowerChar(pat[i]) = LowerChar(s[j]) /\ LikeFrom(pat, i + 1, s, j + 1)

\* LIKE as under PRAGMA case_sensitive_like: letters compare as they are
RECURSIVE LikeFromExact(_, _, _, _)
LikeFromExact(pat, i, s, j) ==
    IF i > Len(pat) THEN j > Len(s)
    ELSE IF pat[i] = "%"
         THEN \E k \in j..(Len(s) + 1) : LikeFromExact(pat, i + 1, s, k)
    ELSE IF j > Len(s) THEN FALSE
    ELSE IF pat[i] = "_" THEN LikeFromExact(pat, i + 1, s, j + 1)
    ELSE pat[i] = s[j] /\ LikeFromExact(pat, i + 1, s, j + 1)

LikeExact(s, pat) == LikeFromExact(pat, 1, s, 1)

\* s LIKE pat
Like(s, pat) == LikeFrom(pat, 1, s, 1)

\* the largest element of a non-empty set of integers
Max(S) == CHOOSE m \in S : \A n \in S : n <= m

\* a rowid that is the largest one in the table, not one more
NextRowIdReused(rows) == IF rows = {} THEN 1 ELSE Max({r.id : r \in rows})

\* the rowid an INSERT gives to an INTEGER PRIMARY KEY column left NULL: one
\* more than the largest rowid in the table
NextRowId(rows) == IF rows = {} THEN 1 ELSE Max({r.id : r \in rows}) + 1

\* an INSERT whose symptoms and medications parameters are in each other's place
NewRowSwapped(r, id, stamp) ==
    [id          |-> id,
     patient_id  |-> r.patient_id,
     report_date |-> r.report_date,
     report_type |-> r.report_type,
     diagnosis   |-> r.diagnosis,
     symptoms    |-> JsonDumpsList(r.medications),
     medications |-> JsonDumpsList(r.symptoms),
     lab_values  |-> JsonDumpsDict(r.lab_values),
     summary     |-> r.summary,
     raw_text    |-> r.raw_text,
     created_at  |-> stamp]

\* the row the INSERT of save_report writes
NewRow(r, id, stamp) ==
    [id          |-> id,
     patient_id  |-> r.patient_id,
     report_date |-> r.report_date,
     report_type |-> r.report_type,
     diagnosis   |-> r.diagnosis,
     symptoms    |-> JsonDumpsList(r.symptoms),
     medications |-> JsonDumpsList(r.medications),
     lab_values  |-> JsonDumpsDict(r.lab_values),
     summary     |-> r.summary,
     raw_text    |-> r.raw_text,
     created_at  |-> stamp]

\* a table scan: the rows in rowid order
RECURSIVE ScanTable(_)
ScanTable(rows) ==
    IF rows = {} THEN <<>>
    ELSE LET r == CHOOSE x \in rows : \A y \in rows : x.id <= y.id
         IN  <<r>> \o ScanTable(rows \ {r})

\* one row put into a list that is ordered by report_date descending, behind
\* the rows with the same date
RECURSIVE InsertDesc(_, _)
InsertDesc(sorted, r) ==
    IF sorted = <<>> THEN <<r>>
    ELSE IF TextLess(Head(sorted).report_date, r.report_date)
         THEN <<r>> \o sorted
         ELSE <<Head(sorted)>> \o InsertDesc(Tail(sorted), r)

\* ORDER BY report_date DESC
RECURSIVE OrderByDateDesc(_)
OrderByDateDesc(rs) ==
    IF rs = <<>> THEN <<>>
    ELSE InsertDesc(OrderByDateDesc(SubSeq(rs, 1, Len(rs) - 1)), rs[Len(rs)])

\* the query without its ORDER BY clause
SelectByPatientUnordered(rows, p) ==
    SelectSeq(ScanTable(rows), LAMBDA r : r.patient_id = p)

\* SELECT * FROM reports WHERE patient_id = ? ORDER BY report_date DESC
SelectByPatient(rows, p) ==
    OrderByDateDesc(SelectSeq(ScanTable(rows), LAMBDA r : r.patient_id = p))

\* json.loads(col) if col else <empty>
DecodeColumn(col) == IF col = <<>> THEN [ok |-> TRUE, val |-> <<>>] ELSE JsonLoads(col)

\* the dict get_patient_reports builds from one row
ReportDict(row) ==
    [id          |-> row.id,
     patient_id  |-> row.patient_id,
     report_date |-> row.report_date,
     report_type |-> row.report_type,
     diagnosis   |-> row.diagnosis,
     symptoms    |-> DecodeColumn(row.symptoms).val,
     medications |-> DecodeColumn(row.medications).val,
     lab_values  |-> DecodeColumn(row.lab_values).val,
     summary     |-> row.summary]

\* json.loads raises on none of the three encoded columns of the row
RowDecodes(row) ==
    /\ DecodeColumn(row.symptoms).ok
    /\ DecodeColumn(row.medications).ok
    /\ DecodeColumn(row.lab_values).ok

\* SELECT id, patient_id, report_date, summary FROM reports
\* WHERE raw_text LIKE ? OR diagnosis LIKE ? ORDER BY report_date DESC,
\* with both parameters f'%{query}%'
SelectByKeyword(rows, query) ==
    LET pat == <<"%">> \o query \o <<"%">>
    IN  OrderByDateDesc(SelectSeq(ScanTable(rows),
            LAMBDA r : Like(r.raw_text, pat) \/ Like(r.diagnosis, pat)))

\* the dict search_reports builds from one row
SearchDict(row) ==
    [id |-> row.id, patient_id |-> row.patient_id, date |-> row.report_date,
     summary |-> row.summary]

\* the dict get_stats returns
StatsOf(rows) ==
    [total_reports   |-> Cardinality(rows),
     unique_patients |-> Cardinality({r.patient_id : r \in rows}),
     report_types    |-> [t \in {r.report_type : r \in rows} |->
                             Cardinality({r \in rows : r.report_type = t})]]

-----------------------------------------------------------------------------
(* MedicalSummarizer: the operations on the store *)

\* the reports table as the connection sees it: the durable rows and the rows
\* of its own open transaction
View == committed \cup pending

\* a cursor() that opens the connection again when it is closed
CursorReconnects(c) == c \in {"open", "closed"}

\* self.conn.cursor() succeeds; on a closed connection it raises
\* sqlite3.ProgrammingError
Cursor(c) == c = "open"

\* the record of a call: what was called with what, how it ended, and the
\* table and connection as they were when it was made
Call(op, status, key, rec, id, result) ==
    [op |-> op, status |-> status, key |-> key, rec |-> rec, id |-> id,
     result |-> result, before |-> View, durable |-> committed, was |-> conn]

\* save_report(report); stamp is CURRENT_TIMESTAMP at the INSERT
save_report(r, stamp) ==
    LET row == NewRow(r, NextRowId(View), stamp)
    IN  IF ~Cursor(conn)
        THEN /\ last' = Call("save_report", "ProgrammingError", <<>>, <<r>>, 0, <<>>)
             /\ UNCHANGED <<conn, committed, pending, returned>>
        ELSE \/ \* cursor.execute raises: the statement wrote nothing
                /\ last' = Call("save_report", "OperationalError", <<>>, <<r>>, 0, <<>>)
                /\ UNCHANGED <<conn, committed, pending, returned>>
             \/ \* conn.commit raises and the transaction stays open
                /\ pending' = pending \cup {row}
                /\ last' = Call("save_report", "OperationalError", <<>>, <<r>>, 0, <<>>)
                /\ UNCHANGED <<conn, committed, returned>>
             \/ \* conn.commit raises and SQLite rolls the transaction back
                /\ pending' = {}
                /\ last' = Call("save_report", "OperationalError", <<>>, <<r>>, 0, <<>>)
                /\ UNCHANGED <<conn, committed, returned>>
             \/ \* the INSERT and the commit succeed: return cursor.lastrowid
                /\ committed' = committed \cup pending \cup {row}
                /\ pending' = {}
                /\ returned' = Append(returned, [id |-> row.id, rec |-> r])
                /\ last' = Call("save_report", "ok", <<>>, <<r>>, row.id, <<>>)
                /\ UNCHANGED conn

\* get_patient_reports(patient_id)
get_patient_reports(p) ==
    LET rows == SelectByPatient(View, p)
    IN  /\ IF ~Cursor(conn)
           THEN last' = Call("get_patient_reports", "ProgrammingError", p, <<>>, 0, <<>>)
           ELSE \/ last' = Call("get_patient_reports", "OperationalError", p, <<>>, 0, <<>>)
                \/ last' = IF \A i \in 1..Len(rows) : RowDecodes(rows[i])
                           THEN Call("get_patient_reports", "ok", p, <<>>, 0,
                                     [i \in 1..Len(rows) |-> ReportDict(rows[i])])
                           ELSE Call("get_patient_reports", "JSONDecodeError", p,
                                     <<>>, 0, <<>>)
        /\ UNCHANGED <<conn, committed, pending, returned>>

\* search_reports(query)
search_reports(query) ==
    LET rows == SelectByKeyword(View, query)
    IN  /\ IF ~Cursor(conn)
           THEN last' = Call("search_reports", "ProgrammingError", query, <<>>, 0, <<>>)
           ELSE \/ last' = Call("search_reports", "OperationalError", query, <<>>, 0, <<>>)
                \/ last' = Call("search_reports", "ok", query, <<>>, 0,
                                [i \in 1..Len(rows) |-> SearchDict(rows[i])])
        /\ UNCHANGED <<conn, committed, pending, returned>>

\* get_stats()
get_stats ==
    /\ IF ~Cursor(conn)
       THEN last' = Call("get_stats", "ProgrammingError", <<>>, <<>>, 0, <<>>)
       ELSE \/ last' = Call("get_stats", "OperationalError", <<>>, <<>>, 0, <<>>)
            \/ last' = Call("get_stats", "ok", <<>>, <<>>, 0, <<StatsOf(View)>>)
    /\ UNCHANGED <<conn, committed, pending, returned>>

\* close(): sqlite3 closes the connection, an open transaction is rolled
\* back; closing a closed connection does nothing
close ==
    /\ conn' = "closed"
    /\ pending' = {}
    /\ last' = Call("close", "ok", <<>>, <<>>, 0, <<>>)
    /\ UNCHANGED <<committed, returned>>

-----------------------------------------------------------------------------
(* A client of one MedicalSummarizer: any sequence of calls *)

\* the most rows the table is let grow to
MaxRows == 2

\* the instant at which the reports are processed and saved: the local date
\* datetime.now() gives and the CURRENT_TIMESTAMP of the INSERT
Instants ==
    { [today |-> <<"2","0","2","6","-","1","1","-","0","4">>,
       stamp |-> <<"2","0","2","6","-","1","1","-","0","4"," ","0","9",":","0","0",":","0","0">>] }

\* the texts and type labels handed to process_report
ReportInputs ==
    { [text |->
        <<"I","D",":"," ","P","1","\n","D","a","t","e",":"," ","1","/","1",
          "5","/","2","0","2","4","\n","D","i","a","g","n","o","s","i","s",
          ":"," ","F","l","u","\n","f","e","v","e","r","."," ","a","s","p",
          "i","r","i","n"," ","5","m","g"," ","t","e","m","p"," ","9","9">>,
       report_type |-> <<"G","e","n","e","r","a","l">>],
      [text |->
        <<"M","R","N"," ","P","1"," ","d","a","t","e",":"," ","3","/","2","/",
          "2","0","2","4"," ","I","m","p","r","e","s","s","i","o","n",":"," ",
          "F","L","U"," ","Z","o","l","o","f","t"," ","5","m","g">>,
       report_type |-> <<"I","m","p","o","r","t","e","d">>],
      [text |->
        <<"n","o"," ","m","a","r","k","e","r","s">>,
       report_type |-> <<"G","e","n","e","r","a","l">>] }

\* process_report on each input at each instant: the records a client saves,
\* each with the CURRENT_TIMESTAMP of its instant
Processed ==
    { [rec   |-> ProcessReport(in.text, in.report_type, now.today),
       stamp |-> now.stamp] : in \in ReportInputs, now \in Instants }

\* the patient identifiers asked for
PatientKeys == { <<"P","1">>, <<"P","2">>, UNKNOWN }

\* the keywords searched for
Keywords ==
    { <<"f","l","u">>, <<"F","L","U">>, <<"f","_","u">>, <<"P","%","9">>,
      <<"z","z","z">> }

NoCall == [op |-> "none", status |-> "ok", key |-> <<>>, rec |-> <<>>, id |-> 0,
           result |-> <<>>, before |-> {}, durable |-> {}, was |-> "open"]

\* the variables of the extractor harness and of demo, idle
IdleExtract == text = <<>> /\ patient_id = <<>> /\ found_meds = <<>>
IdleDemo == pc = "idle" /\ reports = <<>> /\ locals = <<>> /\ report = <<>>
            /\ calls = <<>> /\ exc = "" /\ closes = 0

\* no MedicalSummarizer yet
IdleStore == conn = "none" /\ committed = {} /\ pending = {} /\ last = NoCall
             /\ returned = <<>>

\* after MedicalSummarizer(db_path) on a new database file
Init ==
    /\ conn = "open"
    /\ committed = {}
    /\ pending = {}
    /\ last = NoCall
    /\ returned = <<>>
    /\ IdleExtract
    /\ IdleDemo

ClientFrame == UNCHANGED <<text, patient_id, found_meds, pc, reports, locals,
                           report, calls, exc, closes>>

CallSave ==
    /\ Cardinality(View) < MaxRows
    /\ \E p \in Processed : save_report(p.rec, p.stamp)
    /\ ClientFrame

CallGetPatientReports ==
    /\ \E p \in PatientKeys : get_patient_reports(p)
    /\ ClientFrame

CallSearch ==
    /\ \E q \in Keywords : search_reports(q)
    /\ ClientFrame

CallGetStats == get_stats /\ ClientFrame

CallClose == close /\ ClientFrame

Next ==
    \/ CallSave
    \/ CallGetPatientReports
    \/ CallSearch
    \/ CallGetStats
    \/ CallClose

Spec == Init /\ [][Next]_vars

-----------------------------------------------------------------------------
(* Properties of the store *)

ReadOps == {"get_patient_reports", "search_reports", "get_stats"}

\* C1: a record built by process_report and saved under identity i comes back
\* from every later get_patient_reports for its patient_id exactly once,
\* with the same scalar fields and with symptoms, medications and lab_values
\* decoded to what was saved; decoding a stored column never fails.
C1_RoundTrip ==
    last.op = "get_patient_reports" =>
        /\ last.status # "JSONDecodeError"
        /\ last.status = "ok" =>
               \A n \in 1..Len(returned) :
                   returned[n].rec.patient_id = last.key =>
                       LET r == returned[n].rec
                           hits == {i \in 1..Len(last.result) :
                                       last.result[i].id = returned[n].id}
                       IN  /\ Cardinality(hits) = 1
                           /\ \A i \in hits :
                                  /\ last.result[i].patient_id = r.patient_id
                                  /\ last.result[i].report_date = r.report_date
                                  /\ last.result[i].report_type = r.report_type
                                  /\ last.result[i].diagnosis = r.diagnosis
                                  /\ last.result[i].summary = r.summary
                                  /\ last.result[i].symptoms = r.symptoms
                                  /\ last.result[i].medications = r.medications
                                  /\ last.result[i].lab_values = r.lab_values

\* a fetch returned two saved records, one with lists and a mapping that are
\* not empty and one with an empty list and an empty mapping
C1_Witness ==
    /\ last.op = "get_patient_reports" /\ last.status = "ok"
    /\ Len(returned) = 2
    /\ \A n \in 1..2 : returned[n].rec.patient_id = last.key
    /\ \E i, j \in 1..Len(last.result) :
           /\ last.result[i].symptoms # <<>> /\ last.result[i].lab_values # <<>>
           /\ last.result[i].medications # <<>>
           /\ last.result[j].symptoms = <<>> /\ last.result[j].lab_values = <<>>

\* the keyword, with _ standing for any one character, occurs in s at
\* position p when ASCII letters are compared without regard to case
KeyMatchesAt(s, p, k) ==
    /\ p + Len(k) - 1 <= Len(s)
    /\ \A i \in 1..Len(k) :
           k[i] = "_" \/ LowerChar(k[i]) = LowerChar(s[p + i - 1])

KeyOccurs(s, k) == \E p \in 1..(Len(s) - Len(k) + 1) : KeyMatchesAt(s, p, k)

C4_FailedSaveLeavesTable ==
    /\ (last.op = "save_report" /\ last.status # "ok") => View = last.before
    /\ (last.op = "save_report" /\ last.status = "ok") =>
           Cardinality(committed \ last.durable) = 1

\* C5: on a closed connection save_report, get_patient_reports,
\* search_reports and get_stats raise ProgrammingError: they return nothing,
\* write nothing and leave the connection closed.
C5_ClosedRejects ==
    (last.was = "closed" /\ last.op \in ReadOps \cup {"save_report"}) =>
        /\ last.status = "ProgrammingError"
        /\ last.result = <<>>
        /\ last.id = 0
        /\ View = last.before
        /\ committed = last.durable
        /\ conn = "closed"

\* save_report was called on a closed store that holds a row
C5_Witness ==
    /\ last.was = "closed"
    /\ last.op = "save_report"
    /\ last.status = "ProgrammingError"
    /\ committed # {}

\* C7: get_patient_reports(p) returns the rows whose patient_id is p, all of
\* them and no other, each once, in non-increasing order of report_date.
C7_FetchByPatient ==
    (last.op = "get_patient_reports" /\ last.status = "ok") =>
        LET res == last.result
            match == {r \in last.before : r.patient_id = last.key}
        IN  /\ {res[i].id : i \in 1..Len(res)} = {r.id : r \in match}
            /\ Len(res) = Cardinality(match)
            /\ \A i \in 1..Len(res) : res[i].patient_id = last.key
            /\ \A i \in 1..(Len(res) - 1) :
                   ~TextLess(res[i].report_date, res[i + 1].report_date)

\* a fetch returned two rows of different dates, the later one saved first
\* or second, from a table that holds a row of another patient as well
C7_Witness ==
    /\ last.op = "get_patient_reports" /\ last.status = "ok"
    /\ Len(last.result) = 2
    /\ last.result[1].report_date # last.result[2].report_date
    /\ last.result[1].id > last.result[2].id

-----------------------------------------------------------------------------
(* The extractors applied to texts: extract_patient_info, extract_medications *)

\* the most fragments a text is put together from
MaxFragments == 3

\* pieces of text around a patient identifier
IdFragments ==
    {
      <<"P","a","t","i","e","n","t"," ","I","D">>,
      <<":"," ">>,
      <<"P","-","1">>,
      <<"m","r","n">>,
      <<"i","d">>,
      <<"s","a","i","d">>,
      <<" ">>,
      <<"!">> }

\* pieces of text around a medication
MedFragments ==
    {
      <<"a","s","p","i","r","i","n">>,
      <<"I","b","u","p","r","o","f","e","n"," ">>,
      <<"Z","o","l","o","f","t"," ","5","m","g">>,
      <<" ","z","o","l","o","f","t"," ","1","0"," ","M","G">>,
      <<" ","5","m","g">>,
      <<" ">>,
      <<"x">> }

\* the texts made of at most MaxFragments fragments of one of the two sets
TextsOf(fragments) ==
    {Concat(f) : f \in UNION {[1..n -> fragments] : n \in 0..MaxFragments}}

ExtractTexts == TextsOf(IdFragments) \cup TextsOf(MedFragments)

InitExtract ==
    /\ text \in ExtractTexts
    /\ patient_id = <<>>
    /\ found_meds = <<>>
    /\ IdleStore
    /\ IdleDemo

ExtractFrame == UNCHANGED <<conn, committed, pending, last, returned, pc,
                            reports, locals, report, calls, exc, closes>>

\* patient_id, _ = extract_patient_info(text)
CallExtractPatientInfo ==
    /\ patient_id = <<>>
    /\ patient_id' = <<ExtractPatientId(text)>>
    /\ UNCHANGED <<text, found_meds>>
    /\ ExtractFrame

\* found_meds = extract_medications(text)
CallExtractMedications ==
    /\ found_meds = <<>>
    /\ found_meds' = <<ExtractMedications(text)>>
    /\ UNCHANGED <<text, patient_id>>
    /\ ExtractFrame

NextExtract ==
    \/ CallExtractPatientInfo
    \/ CallExtractMedications

SpecExtract == InitExtract /\ [][NextExtract]_vars

\* \b before position p: the text starts there or the character before is
\* not a letter or a digit
WordStart(s, p) == p = 1 \/ ~(IsAlpha(s[p - 1]) \/ IsDigit(s[p - 1]))

\* C8 as stated: the patient_id is the token that follows the first
\* introducer ("patient id", "mrn", "id" as a word of its own, then ":" or
\* whitespace), and "UNKNOWN" when the text has no such introducer, as when
\* the letters "id" occur only inside another word.
C8_IdentityExtraction ==
    patient_id # <<>> =>
        LET hits == {p \in 1..Len(text) :
                        WordStart(text, p) /\ PatientMatchAt(text, p) # <<>>}
        IN  patient_id[1] = IF hits = {} THEN UNKNOWN
                            ELSE PatientMatchAt(text, Min(hits))

\* the vocabulary entries that occur in the lower-cased text, by their index
PresentMeds(s) ==
    {i \in 1..Len(common_meds) : Contains(LowerStr(s), common_meds[i])}

\* the first place in a list at which x stands, 0 if nowhere
FirstIndex(x, xs) ==
    IF InList(x, xs) THEN Min({i \in 1..Len(xs) : xs[i] = x}) ELSE 0

\* C9: extract_medications returns the vocabulary names that occur in the
\* text, in vocabulary order, then the lower-cased names of the dosage
\* matches that are not yet in the list, in text order; every vocabulary name
\* that occurs and every lower-cased dosage name is in it, and none twice.
C9_Medications ==
    found_meds # <<>> =>
        LET res     == found_meds[1]
            present == PresentMeds(text)
            n       == Cardinality(present)
            names   == LET m == MedFindAll(text, 1)
                       IN  [i \in 1..Len(m) |-> LowerStr(m[i])]
        IN  /\ n <= Len(res)
            /\ \A j \in 1..n : \E i \in present :
                   /\ res[j] = common_meds[i]
                   /\ Cardinality({k \in present : k <= i}) = j
            /\ \A j \in (n + 1)..Len(res) :
                   /\ InList(res[j], names)
                   /\ ~InList(res[j], SubSeq(res, 1, n))
            /\ \A j, k \in (n + 1)..Len(res) :
                   j < k => FirstIndex(res[j], names) < FirstIndex(res[k], names)
            /\ \A i \in 1..Len(names) : InList(names[i], res)
            /\ \A j, k \in 1..Len(res) : res[j] = res[k] => j = k

\* a text with a vocabulary name, a dosage name outside the vocabulary, and a
\* dosage match that repeats a name in another letter case
C9_Witness ==
    /\ found_meds # <<>>
    /\ PresentMeds(text) # {}
    /\ Len(found_meds[1]) > Cardinality(PresentMeds(text))
    /\ Len(MedFindAll(text, 1)) > Len(found_meds[1]) - Cardinality(PresentMeds(text))

-----------------------------------------------------------------------------
(* demo(), with process_report step by step *)

\* the most report texts load_reports_from_file returns
MaxReports == 2

DemoTexts == {in.text : in \in ReportInputs}

\* what load_reports_from_file may return
DemoBatches == UNION {[1..n -> DemoTexts] : n \in 0..MaxReports}

\* the report_type demo passes to process_report
Imported == <<"I","m","p","o","r","t","e","d">>

ProcessSteps ==
    {"extract_patient_info", "extract_symptoms", "extract_medications",
     "extract_lab_values", "extract_diagnosis", "construct",
     "generate_summary", "return"}

\* no step of process_report ran yet; assigned counts the assignments to a
\* field of the constructed record
NoCalls ==
    [extract_patient_info |-> 0, extract_symptoms |-> 0,
     extract_medications |-> 0, extract_lab_values |-> 0,
     extract_diagnosis |-> 0, generate_summary |-> 0, assigned |-> 0]

\* the locals of process_report, each <<>> until it is assigned, then <<value>>
NoLocals ==
    [patient_id |-> <<>>, report_date |-> <<>>, symptoms |-> <<>>,
     medications |-> <<>>, lab_values |-> <<>>, diagnosis |-> <<>>]

InitDemo ==
    /\ pc = "load"
    /\ reports = <<>>
    /\ locals = NoLocals
    /\ report = <<>>
    /\ calls = NoCalls
    /\ exc = ""
    /\ closes = 0
    /\ IdleStore
    /\ IdleExtract

StoreFrame == UNCHANGED <<conn, committed, pending, last, returned>>

\* reports = load_reports_from_file("reports.txt"); open() may raise
LoadReports ==
    /\ pc = "load"
    /\ \/ reports' \in DemoBatches /\ pc' = "connect" /\ UNCHANGED exc
       \/ exc' = "OSError" /\ pc' = "done" /\ UNCHANGED reports
    /\ StoreFrame
    /\ UNCHANGED <<text, patient_id, found_meds, locals, report, calls, closes>>

\* MedicalSummarizer.__init__: self.conn = sqlite3.connect(db_path)
Connect ==
    /\ pc = "connect"
    /\ \/ conn' = "open" /\ pc' = "setup_database" /\ UNCHANGED exc
       \/ exc' = "OperationalError" /\ pc' = "done" /\ UNCHANGED conn
    /\ UNCHANGED <<committed, pending, last, returned, text, patient_id,
                   found_meds, reports, locals, report, calls, closes>>

\* MedicalSummarizer.__init__: self.setup_database(); an exception of the
\* CREATE TABLE or of the commit leaves __init__ and demo, which is not yet
\* inside its try statement
SetupDatabase ==
    /\ pc = "setup_database"
    /\ \/ pc' = "for" /\ UNCHANGED exc
       \/ exc' = "DatabaseError" /\ pc' = "done"
    /\ StoreFrame
    /\ UNCHANGED <<text, patient_id, found_meds, reports, locals, report,
                   calls, closes>>

\* for text in reports: ... process_report(text, "Imported")
ForLoop ==
    /\ pc = "for"
    /\ IF reports = <<>>
       THEN /\ pc' = "get_stats"
            /\ UNCHANGED <<text, reports, locals, report, calls>>
       ELSE /\ text' = Head(reports)
            /\ reports' = Tail(reports)
            /\ locals' = NoLocals
            /\ report' = <<>>
            /\ calls' = NoCalls
            /\ pc' = "extract_patient_info"
    /\ StoreFrame
    /\ UNCHANGED <<patient_id, found_meds, exc, closes>>

ProcessFrame ==
    /\ StoreFrame
    /\ UNCHANGED <<text, patient_id, found_meds, reports, exc, closes>>

\* patient_id, report_date = self.extract_patient_info(text)
StepExtractPatientInfo ==
    /\ pc = "extract_patient_info"
    /\ \E now \in Instants :
           locals' = [locals EXCEPT
                         !.patient_id = <<ExtractPatientId(text)>>,
                         !.report_date = <<ExtractReportDate(text, now.today)>>]
    /\ calls' = [calls EXCEPT !.extract_patient_info = @ + 1]
    /\ pc' = "extract_symptoms"
    /\ UNCHANGED report
    /\ ProcessFrame

\* symptoms = self.extract_symptoms(text)
StepExtractSymptoms ==
    /\ pc = "extract_symptoms"
    /\ locals' = [locals EXCEPT !.symptoms = <<ExtractSymptoms(text)>>]
    /\ calls' = [calls EXCEPT !.extract_symptoms = @ + 1]
    /\ pc' = "extract_medications"
    /\ UNCHANGED report
    /\ ProcessFrame

\* medications = self.extract_medications(text)
StepExtractMedications ==
    /\ pc = "extract_medications"
    /\ locals' = [locals EXCEPT !.medications = <<ExtractMedications(text)>>]
    /\ calls' = [calls EXCEPT !.extract_medications = @ + 1]
    /\ pc' = "extract_lab_values"
    /\ UNCHANGED report
    /\ ProcessFrame

\* lab_values = self.extract_lab_values(text)
StepExtractLabValues ==
    /\ pc = "extract_lab_values"
    /\ locals' = [locals EXCEPT !.lab_values = <<ExtractLabValues(text)>>]
    /\ calls' = [calls EXCEPT !.extract_lab_values = @ + 1]
    /\ pc' = "extract_diagnosis"
    /\ UNCHANGED report
    /\ ProcessFrame

\* diagnosis = self.extract_diagnosis(text)
StepExtractDiagnosis ==
    /\ pc = "extract_diagnosis"
    /\ locals' = [locals EXCEPT !.diagnosis = <<ExtractDiagnosis(text)>>]
    /\ calls' = [calls EXCEPT !.extract_diagnosis = @ + 1]
    /\ pc' = "construct"
    /\ UNCHANGED report
    /\ ProcessFrame

\* report = MedicalReport(..., summary="", raw_text=text)
Construct ==
    /\ pc = "construct"
    /\ report' = << [patient_id  |-> locals.patient_id[1],
                     report_date |-> locals.report_date[1],
                     report_type |-> Imported,
                     diagnosis   |-> locals.diagnosis[1],
                     symptoms    |-> locals.symptoms[1],
                     medications |-> locals.medications[1],
                     lab_values  |-> locals.lab_values[1],
                     summary     |-> <<>>,
                     raw_text    |-> text] >>
    /\ pc' = "generate_summary"
    /\ UNCHANGED <<locals, calls>>
    /\ ProcessFrame

\* a process_report that returns the record as constructed
SkipGenerateSummary ==
    /\ pc = "generate_summary"
    /\ pc' = "return"
    /\ UNCHANGED <<locals, report, calls>>
    /\ ProcessFrame

\* report.summary = self.generate_summary(report)
StepGenerateSummary ==
    /\ pc = "generate_summary"
    /\ report' = <<[report[1] EXCEPT !.summary = GenerateSummary(report[1])]>>
    /\ calls' = [calls EXCEPT !.generate_summary = @ + 1, !.assigned = @ + 1]
    /\ pc' = "return"
    /\ UNCHANGED locals
    /\ ProcessFrame

\* return report
Return ==
    /\ pc = "return"
    /\ pc' = "save_report"
    /\ UNCHANGED <<locals, report, calls>>
    /\ ProcessFrame

\* an exception raised inside process_report (KeyboardInterrupt, MemoryError)
Interrupt ==
    /\ pc \in ProcessSteps
    /\ exc' = "KeyboardInterrupt"
    /\ pc' = "finally"
    /\ StoreFrame
    /\ UNCHANGED <<text, patient_id, found_meds, reports, locals, report,
                   calls, closes>>

\* report_id = summarizer.save_report(report), and the two prints
DemoSaveReport ==
    /\ pc = "save_report"
    /\ \E now \in Instants : save_report(report[1], now.stamp)
    /\ IF last'.status = "ok"
       THEN pc' = "for" /\ UNCHANGED exc
       ELSE pc' = "finally" /\ exc' = last'.status
    /\ UNCHANGED <<text, patient_id, found_meds, reports, locals, report,
                   calls, closes>>

\* stats = summarizer.get_stats(), and the print
DemoGetStats ==
    /\ pc = "get_stats"
    /\ get_stats
    /\ pc' = "finally"
    /\ exc' = IF last'.status = "ok" THEN exc ELSE last'.status
    /\ UNCHANGED <<text, patient_id, found_meds, reports, locals, report,
                   calls, closes>>

\* finally: summarizer.close(); after it demo returns or the exception goes on
Finally ==
    /\ pc = "finally"
    /\ close
    /\ closes' = closes + 1
    /\ pc' = "done"
    /\ UNCHANGED <<text, patient_id, found_meds, reports, locals, report,
                   calls, exc>>

NextDemo ==
    \/ LoadReports
    \/ Connect
    \/ SetupDatabase
    \/ ForLoop
    \/ StepExtractPatientInfo
    \/ StepExtractSymptoms
    \/ StepExtractMedications
    \/ StepExtractLabValues
    \/ StepExtractDiagnosis
    \/ Construct
    \/ StepGenerateSummary
    \/ Return
    \/ Interrupt
    \/ DemoSaveReport
    \/ DemoGetStats
    \/ Finally

SpecDemo == InitDemo /\ [][NextDemo]_vars

\* C6 as stated: once the connection has been opened, demo ends, however it
\* ends, with the connection closed after exactly one close().
C6_ConnectionReleased ==
    (pc = "done" /\ conn # "none") => (conn = "closed" /\ closes = 1)

\* every local of process_report is assigned and every extractor ran once
FullyExtracted ==
    /\ \A f \in DOMAIN locals : locals[f] # <<>>
    /\ calls.extract_patient_info = 1
    /\ calls.extract_symptoms = 1
    /\ calls.extract_medications = 1
    /\ calls.extract_lab_values = 1
    /\ calls.extract_diagnosis = 1

\* the record holds what the extractors return for its own raw text
HoldsExtraction(r) ==
    /\ r.patient_id = ExtractPatientId(r.raw_text)
    /\ \E now \in Instants :
           r.report_date = ExtractReportDate(r.raw_text, now.today)
    /\ r.report_type = Imported
    /\ r.diagnosis = ExtractDiagnosis(r.raw_text)
    /\ r.symptoms = ExtractSymptoms(r.raw_text)
    /\ r.medications = ExtractMedications(r.raw_text)
    /\ r.lab_values = ExtractLabValues(r.raw_text)

\* C10: when generate_summary is about to run every extractor has run exactly
\* once and the record holds all extracted fields; the record that is
\* returned, and the one save_report is given, has had exactly one assignment
\* after its construction, the one of its summary, which is the summary of
\* its own fields and is not empty.
C10_AssemblyOrder ==
    /\ pc = "generate_summary" =>
           /\ FullyExtracted
           /\ calls.generate_summary = 0 /\ calls.assigned = 0
           /\ report # <<>> /\ report[1].raw_text = text
           /\ HoldsExtraction(report[1])
           /\ report[1].summary = <<>>
    /\ pc \in {"return", "save_report"} =>
           /\ FullyExtracted
           /\ calls.generate_summary = 1 /\ calls.assigned = 1
           /\ report # <<>> /\ report[1].raw_text = text
           /\ HoldsExtraction(report[1])
           /\ report[1].summary # <<>>
           /\ report[1].summary = GenerateSummary(report[1])
    /\ last.op = "save_report" =>
           /\ last.rec[1].summary # <<>>
           /\ last.rec[1].summary = GenerateSummary(last.rec[1])
           /\ HoldsExtraction(last.rec[1])

\* process_report returned a record with symptoms, medications and lab
\* values, and save_report took it
C10_Witness ==
    /\ last.op = "save_report" /\ last.status = "ok"
    /\ pc = "for"
    /\ report[1].symptoms # <<>>
    /\ report[1].medications # <<>>
    /\ report[1].lab_values # <<>>

=============================================================================
